---- MODULE Spec2Model ----
(***************************************************************************)
(* The playlist utilities of spotify-python: clean.py (remove duplicate    *)
(* tracks), remove.py (remove tracks by id), spotify.py (filter a track    *)
(* list and add it to a playlist) and analyzer.py (read a playlist).       *)
(* Every program is single-threaded: one run of one workflow is one        *)
(* behaviour, and every remote call is one step whose outcome (success,    *)
(* HTTP 429, another HTTP error, another exception) the remote chooses.    *)
(* The page reads of the paginators are taken to succeed.                  *)
(***************************************************************************)
EXTENDS Integers, Sequences, FiniteSets, TLC

VARIABLES
    wf,               \* the program that runs: clean, remove, build, analyze, details;
                      \* or the function that is called: exclude, extract
    listing,          \* remote: the user's playlists in listing order, [name, id]
    content,          \* remote: content[id] is the item sequence of playlist id
    content0,         \* history: content when the run started
    playlist_name,    \* configuration: track_config['playlist_name']
    track_ids,        \* configuration: track_config['track_ids'] / the method's argument
    pc,               \* position of the run
    playlists,        \* local of the playlist paginator
    offset,           \* local of the running paginator
    fetches,          \* history: page-fetch calls of the running paginator
    playlist_id,      \* the resolved playlist: <<>> (None) or <<id>>
    tracks,           \* result of get_playlist_tracks
    duplicates,       \* clean.py: uris to remove
    seen_tracks,      \* clean.py: ids the scan has met
    tracks_to_remove, \* remove.py: [uri |-> ...] records to remove
    filtered_tracks,  \* spotify.py: ids kept by filter_tracks
    details,          \* analyzer.py: records fetched by get_track_details
    k,                \* index (1-based) of the element the running for loop is at
    i,                \* start index of the running batch loop (0-based, as range())
    batches,          \* history: the slices the batch loop has taken, in order
    calls,            \* history: remote write calls, in order, with their outcome
    retry_count,      \* local of the retry wrapper
    call,             \* history: the running (or last) retry-wrapper call
    faults,           \* remote: failures it may still answer a write with
    readFaults,       \* remote: failures it may still answer a track read with
    ended,            \* history: how each wrapper call of filter_tracks ended, in order
    arg,              \* the arguments of the function that is called
    result            \* what the function that is called returned or raised

vars == <<wf, listing, content, content0, playlist_name, track_ids, pc, playlists,
          offset, fetches, playlist_id, tracks, duplicates, seen_tracks,
          tracks_to_remove, filtered_tracks, details, k, i, batches, calls,
          retry_count, call, faults, readFaults, ended, arg, result>>

(***************************************************************************)
(* Bounds of the model.                                                    *)
(***************************************************************************)
NumIds == 2          \* distinct track ids of the small playlists
MaxLen == 3          \* length of the small playlists
MaxQ == 2            \* length of the small configured id lists
MaxPl == 2           \* length of the small playlist listings
MaxFaults == 4       \* failures the remote may inject in one run
MaxKw == 2           \* length of the keywords should_exclude_track is called with
MaxText == 2         \* length of the texts of the records it is called with
MaxArtists == 2      \* artists of the records it is called with

(***************************************************************************)
(* Program constants.                                                      *)
(***************************************************************************)
BATCH_SIZE == 100           \* spotify.py; clean.py and remove.py write the literal
ANALYZER_BATCH_SIZE == 50   \* analyzer.py
RATE_LIMIT_DELAY == 1
max_retries == 3
PLAYLIST_PAGE == 50         \* page of current_user_playlists
TRACK_PAGE == 100           \* page of playlist_tracks

Min(a, b) == IF a < b THEN a ELSE b

\* seq[a:b] of Python, 0-based and clipped at the end.
Slice(seq, a, b) == SubSeq(seq, a + 1, Min(b, Len(seq)))

\* The slice taken one element late: seq[a + 1:a + size]
BatchSkippingFirst(seq, a, size) == Slice(seq, a + 1, a + size)

\* The slice a batch loop takes at start index a: seq[a:a + size]
Batch(seq, a, size) == Slice(seq, a, a + size)

\* The exit test taking a full page for the last one
ShortPageInclusive(response, page) == Len(response.items) <= page

\* The page loops' exit test: if len(response['items']) < page: break
ShortPage(response, page) == Len(response.items) < page

RECURSIVE Concat(_)
Concat(ss) == IF ss = <<>> THEN <<>> ELSE Head(ss) \o Concat(Tail(ss))

Map(F(_), seq) == [j \in 1..Len(seq) |-> F(seq[j])]

Range(seq) == {seq[j] : j \in 1..Len(seq)}

(***************************************************************************)
(* Track references.  The uri of a track is derived from its id; the       *)
(* remote takes the id back out of a uri.                                  *)
(***************************************************************************)
Uri(id) == <<"spotify", "track", id>>

IdOfUri(uri) == uri[3]

\* A playlist item: its 'track' is None (<<>>) or a track object.
NullItem == [track |-> <<>>]

TrackItem(id) == [track |-> <<[id |-> id, uri |-> Uri(id)]>>]

HasTrack(item) == item.track # <<>>

ItemId(item) == item.track[1].id

ItemUri(item) == item.track[1].uri

(***************************************************************************)
(* The remote's read endpoints.                                            *)
(***************************************************************************)
\* sp.current_user_playlists(offset=offset)
current_user_playlists(off) ==
    [items |-> Slice(listing, off, off + PLAYLIST_PAGE)]

\* sp.playlist_tracks(playlist_id, offset=offset)
playlist_tracks(pid, off) ==
    [items |-> Slice(content[pid], off, off + TRACK_PAGE),
     total |-> Len(content[pid])]

\* sp.playlist_remove_all_occurrences_of_items(playlist_id, items), on success
RemoveAllOccurrences(items, uris) ==
    SelectSeq(items, LAMBDA it :
        ~(HasTrack(it) /\ ItemId(it) \in {IdOfUri(u) : u \in Range(uris)}))

\* sp.playlist_add_items(playlist_id, items), on success
AddItems(items, ids) == items \o Map(TrackItem, ids)

(***************************************************************************)
(* The track catalogue of the remote: sp.track(id).  Text is a sequence of *)
(* characters.                                                             *)
(***************************************************************************)
TrackRecord(id) ==
    [id |-> id,
     name |-> <<"S", "o", "n", "g">>,
     album |-> IF id % 10 = 2
                 THEN [name |-> <<"L", "o", "f", "i", " ", "B">>]
                 ELSE [name |-> <<"H", "i", "t", "s">>,
                       label |-> IF id % 10 = 5 THEN <<"l", "o", "f", "i">>
                                                ELSE <<"E", "M", "I">>],
     artists |-> IF id % 10 = 7
                   THEN <<[name |-> <<"l", "o">>], [name |-> <<"f", "i">>]>>
                   ELSE <<[name |-> <<"A", "b">>]>>]

(***************************************************************************)
(* The inputs of a run.                                                    *)
(***************************************************************************)
SeqsUpTo(S, n) == UNION {[1..m -> S] : m \in 0..n}

\* n items whose ids cycle through 1..m: all equal for m = 1, distinct for m = n.
Cyc(n, m) == [j \in 1..n |-> TrackItem(((j - 1) % m) + 1)]

Iota(n) == [j \in 1..n |-> j]

SmallPlaylists ==
    SeqsUpTo({NullItem} \cup {TrackItem(id) : id \in 1..NumIds}, MaxLen)

\* the playlists remove.py is run on: as long as the id lists
ShortPlaylists ==
    SeqsUpTo({NullItem} \cup {TrackItem(id) : id \in 1..NumIds}, MaxQ)

\* the playlist [a, b, a, c, b]
ExamplePlaylist == Map(TrackItem, <<1, 2, 1, 3, 2>>)

BigPlaylists ==
    {Cyc(n, m) : n \in {TRACK_PAGE, TRACK_PAGE + 1, 2 * TRACK_PAGE,
                        2 * TRACK_PAGE + 1, 2 * TRACK_PAGE + 2},
                 m \in {1, 2 * TRACK_PAGE + 2}}

SmallIdLists == SeqsUpTo(1..NumIds, MaxQ)

BigIdLists ==
    {Iota(n) : n \in {BATCH_SIZE, BATCH_SIZE + 1, 2 * BATCH_SIZE + 1}}
    \cup {[j \in 1..(2 * BATCH_SIZE + 1) |-> 1]}

Names == {"mix", "other"}

Listing(names) == [j \in 1..Len(names) |-> [name |-> names[j], id |-> j]]

SmallListings == {Listing(ns) : ns \in SeqsUpTo(Names, MaxPl)}

FewListings == {Listing(<<>>), Listing(<<"mix">>), Listing(<<"other", "mix", "mix">>)}

BigListings ==
    {Listing([j \in 1..n |-> IF j \in P THEN "mix" ELSE "other"]) :
        n \in {PLAYLIST_PAGE, PLAYLIST_PAGE + 1, 2 * PLAYLIST_PAGE},
        P \in {{}, {1}, {PLAYLIST_PAGE}, {PLAYLIST_PAGE + 1}}}

Scenario(w, l, e, ids, rf) ==
    [wf |-> w, listing |-> l, items |-> e, ids |-> ids, readFaults |-> rf]

Scenarios ==
    {Scenario("clean", l, e, <<>>, 0) :
        l \in SmallListings, e \in SmallPlaylists \cup {ExamplePlaylist}}
    \cup {Scenario("clean", Listing(<<"mix">>), e, <<>>, 0) : e \in BigPlaylists}
    \cup {Scenario("clean", l, Cyc(2, 1), <<>>, 0) : l \in BigListings}
    \cup {Scenario("remove", l, e, q, 0) :
        l \in FewListings, e \in ShortPlaylists, q \in SmallIdLists}
    \cup {Scenario("remove", Listing(<<"mix">>), e, q, 0) :
        e \in {Cyc(1, 1), Cyc(2 * TRACK_PAGE + 1, 2 * TRACK_PAGE + 1)},
        q \in BigIdLists}
    \cup {Scenario("build", l, e, q, MaxFaults) :
        l \in FewListings, e \in {<<>>, Cyc(1, 1)}, q \in SmallIdLists}
    \cup {Scenario("build", Listing(<<"mix">>), <<>>, q, 0) : q \in BigIdLists}
    \cup {Scenario("analyze", Listing(<<"mix">>), e, <<>>, 0) :
        e \in SmallPlaylists \cup BigPlaylists}
    \cup {Scenario("details", Listing(<<"mix">>), <<>>, q, MaxFaults) :
        q \in SmallIdLists \cup BigIdLists
              \cup {Iota(ANALYZER_BATCH_SIZE), Iota(ANALYZER_BATCH_SIZE + 1)}}

NoResult == [kind |-> "none", value |-> <<>>]

Init ==
    \E s \in Scenarios :
        /\ wf = s.wf
        /\ listing = s.listing
        /\ content = [j \in 1..Len(s.listing) |-> s.items]
        /\ content0 = [j \in 1..Len(s.listing) |-> s.items]
        /\ playlist_name = "mix"
        /\ track_ids = s.ids
        /\ pc = CASE s.wf = "analyze" -> "tracks"
                  [] s.wf = "details" -> "batch"
                  [] OTHER -> "list"
        /\ playlists = <<>>
        /\ offset = 0
        /\ fetches = 0
        /\ playlist_id = IF s.wf = "analyze" THEN <<1>> ELSE <<>>
        /\ tracks = <<>>
        /\ duplicates = <<>>
        /\ seen_tracks = {}
        /\ tracks_to_remove = <<>>
        /\ filtered_tracks = <<>>
        /\ details = <<>>
        /\ k = 1
        /\ i = 0
        /\ batches = <<>>
        /\ calls = <<>>
        /\ retry_count = 0
        /\ call = [op |-> "none", attempts |-> 0, limited |-> 0, waits |-> <<>>,
                   failure |-> "none", result |-> "none"]
        /\ faults = MaxFaults
        /\ readFaults = s.readFaults
        /\ ended = <<>>
        /\ arg = <<>>
        /\ result = NoResult

(***************************************************************************)
(* Playlist lookup: get_playlist_id (clean.py, remove.py) and              *)
(* get_all_playlists / find_playlist_by_name (spotify.py).                 *)
(***************************************************************************)
\* One turn of the page loop: fetch, extend, stop on a short page.
FetchPlaylistsPage ==
    /\ pc = "list"
    /\ LET response == current_user_playlists(offset) IN
        /\ playlists' = playlists \o response.items
        /\ fetches' = fetches + 1
        /\ IF ShortPage(response, PLAYLIST_PAGE)
             THEN pc' = "resolve" /\ offset' = offset
             ELSE pc' = "list" /\ offset' = offset + PLAYLIST_PAGE
    /\ UNCHANGED <<wf, ended, arg, result, listing, content, content0, playlist_name, track_ids,
                   playlist_id, tracks, duplicates, seen_tracks, tracks_to_remove,
                   filtered_tracks, details, k, i, batches, calls, retry_count,
                   call, faults, readFaults>>

\* The lookup returning the last playlist of the name
FindLastPlaylistByName(pls, name) ==
    LET hits == {j \in 1..Len(pls) : pls[j].name = name} IN
    IF hits = {} THEN <<>>
    ELSE <<pls[CHOOSE j \in hits : \A m \in hits : j >= m].id>>

\* next((pl for pl in playlists if pl['name'] == name), None), then its id or None
FindPlaylistByName(pls, name) ==
    LET hits == {j \in 1..Len(pls) : pls[j].name = name} IN
    IF hits = {} THEN <<>>
    ELSE <<pls[CHOOSE j \in hits : \A m \in hits : j <= m].id>>

\* main of clean.py and remove.py: a playlist that is not found ends the run.
ResolvePlaylist ==
    /\ pc = "resolve"
    /\ wf \in {"clean", "remove"}
    /\ playlist_id' = FindPlaylistByName(playlists, playlist_name)
    /\ IF playlist_id' = <<>>
         THEN pc' = "notfound" /\ UNCHANGED <<offset, fetches>>
         ELSE pc' = "tracks" /\ offset' = 0 /\ fetches' = 0
    /\ UNCHANGED <<wf, ended, arg, result, listing, content, content0, playlist_name, track_ids,
                   playlists, tracks, duplicates, seen_tracks, tracks_to_remove,
                   filtered_tracks, details, k, i, batches, calls, retry_count,
                   call, faults, readFaults>>

(***************************************************************************)
(* What the remote answers a call with.                                    *)
(***************************************************************************)
Ok == [kind |-> "ok", http_status |-> 200, retry_after |-> <<>>]

\* SpotifyException with http_status 429 (with or without a Retry-After header) or
\* another status, and any other exception.
Failures ==
    {[kind |-> "spotify", http_status |-> 429, retry_after |-> <<>>],
     [kind |-> "spotify", http_status |-> 429, retry_after |-> <<2>>],
     [kind |-> "spotify", http_status |-> 500, retry_after |-> <<>>],
     [kind |-> "other", http_status |-> 0, retry_after |-> <<>>]}

Outcomes(budget) == {Ok} \cup (IF budget > 0 THEN Failures ELSE {})

WriteCall(op, pid, at, items, outcome) ==
    [op |-> op, pid |-> pid, at |-> at, items |-> items, outcome |-> outcome]

(***************************************************************************)
(* clean.py                                                                *)
(***************************************************************************)
\* get_playlist_tracks: one turn of the page loop
CleanerFetchTracksPage ==
    /\ pc = "tracks"
    /\ wf = "clean"
    /\ LET response == playlist_tracks(playlist_id[1], offset) IN
        /\ tracks' = tracks \o
               Map(LAMBDA it : [id |-> ItemId(it), uri |-> ItemUri(it)],
                   SelectSeq(response.items, HasTrack))
        /\ fetches' = fetches + 1
        /\ IF ShortPage(response, TRACK_PAGE)
             THEN pc' = "scan" /\ offset' = offset
             ELSE pc' = "tracks" /\ offset' = offset + TRACK_PAGE
    /\ UNCHANGED <<wf, ended, arg, result, listing, content, content0, playlist_name, track_ids,
                   playlists, playlist_id, duplicates, seen_tracks, tracks_to_remove,
                   filtered_tracks, details, k, i, batches, calls, retry_count,
                   call, faults, readFaults>>

\* The test of the scan inverted
IsDuplicateInverted(track, seen) == track.id \notin seen

\* if track["id"] in seen_tracks
IsDuplicate(track, seen) == track.id \in seen

\* remove_duplicate_tracks: one turn of the scan, for track in tracks
ScanTrack ==
    /\ pc = "scan"
    /\ k <= Len(tracks)
    /\ LET track == tracks[k] IN
         IF IsDuplicate(track, seen_tracks)
           THEN /\ duplicates' = Append(duplicates, track.uri)
                /\ seen_tracks' = seen_tracks
           ELSE /\ seen_tracks' = seen_tracks \cup {track.id}
                /\ duplicates' = duplicates
    /\ k' = k + 1
    /\ UNCHANGED <<wf, ended, arg, result, listing, content, content0, playlist_name, track_ids, pc,
                   playlists, offset, fetches, playlist_id, tracks,
                   tracks_to_remove, filtered_tracks, details, i, batches, calls,
                   retry_count, call, faults, readFaults>>

\* remove_duplicate_tracks, after the scan: nothing to do without duplicates
ScanDone ==
    /\ pc = "scan"
    /\ k > Len(tracks)
    /\ pc' = IF duplicates = <<>> THEN "done" ELSE "batch"
    /\ i' = 0
    /\ UNCHANGED <<wf, ended, arg, result, listing, content, content0, playlist_name, track_ids,
                   playlists, offset, fetches, playlist_id, tracks, duplicates,
                   seen_tracks, tracks_to_remove, filtered_tracks, details, k,
                   batches, calls, retry_count, call, faults, readFaults>>

\* One turn of the removal loop.  The call is not guarded: a failure of any kind
\* leaves remove_duplicate_tracks and is caught by main, which ends the run.
CleanerRemoveBatch ==
    /\ pc = "batch"
    /\ wf = "clean"
    /\ LET batch == Batch(duplicates, i, BATCH_SIZE) IN
       \E outcome \in Outcomes(faults) :
        /\ batches' = Append(batches, batch)
        /\ calls' = Append(calls, WriteCall("remove", playlist_id[1], i, batch, outcome))
        /\ IF outcome = Ok
             THEN /\ content' = [content EXCEPT ![playlist_id[1]] =
                                    RemoveAllOccurrences(@, batch)]
                  /\ i' = i + BATCH_SIZE
                  /\ pc' = IF i' < Len(duplicates) THEN "batch" ELSE "done"
                  /\ faults' = faults
             ELSE /\ content' = content
                  /\ i' = i
                  /\ pc' = "error"
                  /\ faults' = faults - 1
    /\ UNCHANGED <<wf, ended, arg, result, listing, content0, playlist_name, track_ids, playlists,
                   offset, fetches, playlist_id, tracks, duplicates, seen_tracks,
                   tracks_to_remove, filtered_tracks, details, k, retry_count,
                   call, readFaults>>

(***************************************************************************)
(* remove.py                                                               *)
(***************************************************************************)
\* get_playlist_tracks: one turn of the page loop
RemoverFetchTracksPage ==
    /\ pc = "tracks"
    /\ wf = "remove"
    /\ LET response == playlist_tracks(playlist_id[1], offset) IN
        /\ tracks' = tracks \o Map(ItemId, SelectSeq(response.items, HasTrack))
        /\ fetches' = fetches + 1
        /\ IF ShortPage(response, TRACK_PAGE)
             THEN pc' = "select" /\ offset' = offset
             ELSE pc' = "tracks" /\ offset' = offset + TRACK_PAGE
    /\ UNCHANGED <<wf, ended, arg, result, listing, content, content0, playlist_name, track_ids,
                   playlists, playlist_id, duplicates, seen_tracks, tracks_to_remove,
                   filtered_tracks, details, k, i, batches, calls, retry_count,
                   call, faults, readFaults>>

\* The list without the membership test
TracksToRemoveUnfiltered(ids, existing_tracks) ==
    Map(LAMBDA id : [uri |-> Uri(id)], ids)

\* [{"uri": f"spotify:track:{id}"} for id in track_ids_to_remove if id in existing]
TracksToRemove(ids, existing_tracks) ==
    Map(LAMBDA id : [uri |-> Uri(id)],
        SelectSeq(ids, LAMBDA id : id \in existing_tracks))

SelectTracksToRemove ==
    /\ pc = "select"
    /\ tracks_to_remove' = TracksToRemove(track_ids, Range(tracks))
    /\ pc' = IF tracks_to_remove' = <<>> THEN "done" ELSE "batch"
    /\ i' = 0
    /\ UNCHANGED <<wf, ended, arg, result, listing, content, content0, playlist_name, track_ids,
                   playlists, offset, fetches, playlist_id, tracks, duplicates, seen_tracks,
                   filtered_tracks, details, k, batches, calls, retry_count,
                   call, faults, readFaults>>

\* One turn of the removal loop.  A failure of any kind is printed and the loop
\* goes on with the next batch.
RemoverRemoveBatch ==
    /\ pc = "batch"
    /\ wf = "remove"
    /\ LET batch == Map(LAMBDA t : t.uri,
                        Batch(tracks_to_remove, i, BATCH_SIZE)) IN
       \E outcome \in Outcomes(faults) :
        /\ batches' = Append(batches, batch)
        /\ calls' = Append(calls, WriteCall("remove", playlist_id[1], i, batch, outcome))
        /\ IF outcome = Ok
             THEN /\ content' = [content EXCEPT ![playlist_id[1]] =
                                    RemoveAllOccurrences(@, batch)]
                  /\ faults' = faults
             ELSE /\ content' = content
                  /\ faults' = faults - 1
        /\ i' = i + BATCH_SIZE
        /\ pc' = IF i' < Len(tracks_to_remove) THEN "batch" ELSE "done"
    /\ UNCHANGED <<wf, ended, arg, result, listing, content0, playlist_name, track_ids, playlists,
                   offset, fetches, playlist_id, tracks, duplicates, seen_tracks,
                   tracks_to_remove, filtered_tracks, details, k, retry_count,
                   call, readFaults>>

(***************************************************************************)
(* spotify.py: the exclusion predicate                                     *)
(***************************************************************************)
UpperCase == <<"A", "B", "E", "F", "H", "I", "L", "M", "O", "S">>

LowerCase == <<"a", "b", "e", "f", "h", "i", "l", "m", "o", "s">>

\* str.lower(), one character
Lower(c) ==
    IF \E j \in 1..Len(UpperCase) : UpperCase[j] = c
      THEN LowerCase[CHOOSE j \in 1..Len(UpperCase) : UpperCase[j] = c]
      ELSE c

LowerStr(str) == Map(Lower, str)

\* keyword in field
Contains(keyword, field) ==
    \E p \in 0..(Len(field) - Len(keyword)) :
        SubSeq(field, p + 1, p + Len(keyword)) = keyword

\* " ".join(names)
RECURSIVE Join(_)
Join(names) ==
    IF names = <<>> THEN <<>>
    ELSE IF Len(names) = 1 THEN Head(names)
    ELSE Head(names) \o <<" ">> \o Join(Tail(names))

should_exclude_track(track, keyword) ==
    LET track_name == LowerStr(track.name)
        album_name == LowerStr(track.album.name)
        artist_names == Join(Map(LAMBDA a : LowerStr(a.name), track.artists))
        record_label == LowerStr(IF "label" \in DOMAIN track.album
                                   THEN track.album.label ELSE <<>>)
    IN  \E field \in {track_name, album_name, artist_names, record_label} :
            Contains(keyword, field)

\* main: manager.filter_tracks(track_ids, exclude_keyword="lofi")
exclude_keyword == <<"l", "o", "f", "i">>

(***************************************************************************)
(* spotify.py: the retry wrapper                                           *)
(***************************************************************************)
\* The handler counting every SpotifyException as one more retry
handle_rate_limit_counting_all(e, count) == count + 1

\* _handle_rate_limit: the updated retry count
handle_rate_limit(e, count) ==
    IF e.http_status = 429 THEN count + 1 ELSE max_retries

\* int(e.headers.get('Retry-After', self.RATE_LIMIT_DELAY))
RetryAfter(e) ==
    IF e.retry_after # <<>> THEN e.retry_after[1] ELSE RATE_LIMIT_DELAY

\* The loop test admitting one more turn
RetryingInclusive(count) == count <= max_retries

\* while retry_count < max_retries
Retrying(count) == count < max_retries

\* The count of the call before, carried into the next call
StaleRetryCount == retry_count

\* _process_track_with_retry: retry_count = 0
FreshRetryCount == 0

NewCall(op) ==
    [op |-> op, attempts |-> 0, limited |-> 0, waits |-> <<>>,
     failure |-> "none", result |-> "Attempting"]

\* The retry count after one invocation of the operation answered with `outcome`:
\* kept by a return and by the handler of other exceptions, set by
\* _handle_rate_limit for a SpotifyException.
CountAfter(outcome, count) ==
    IF outcome.kind = "spotify" THEN handle_rate_limit(outcome, count) ELSE count

\* What the history keeps of a call that has ended: how it ended, and whether
\* it had max_retries rate-limit answers.
Ending(c) == [result |-> c.result, exhausted |-> c.limited = max_retries]

\* Whether the wrapper is left after that invocation: by its return, by the break
\* of the handler of other exceptions, or by the loop's test.
Leaves(outcome, count) ==
    \/ outcome.kind = "ok"
    \/ outcome.kind = "other"
    \/ ~Retrying(CountAfter(outcome, count))

\* The history of the call after that invocation: the invocation, the sleep of
\* _handle_rate_limit on a 429, the failure of another kind, and how it ended.
CallAfter(outcome, count, c) ==
    [c EXCEPT
        !.attempts = @ + 1,
        !.limited = IF outcome.kind = "spotify" /\ outcome.http_status = 429
                      THEN @ + 1 ELSE @,
        !.waits = IF outcome.kind = "spotify" /\ outcome.http_status = 429
                    THEN Append(@, RetryAfter(outcome)) ELSE @,
        !.failure = CASE outcome.kind = "other" -> "exception"
                      [] outcome.kind = "spotify" /\ outcome.http_status # 429 -> "status"
                      [] OTHER -> @,
        !.result = CASE outcome.kind = "ok" -> "Success"
                     [] Leaves(outcome, count) -> "GivenUp"
                     [] OTHER -> "Attempting"]

(***************************************************************************)
(* spotify.py: the workflow of main                                        *)
(***************************************************************************)
\* get_or_create_playlist, after get_all_playlists: the existing playlist, or
\* on to create_playlist
FindOrCreatePlaylist ==
    /\ pc = "resolve"
    /\ wf = "build"
    /\ playlist_id' = FindPlaylistByName(playlists, playlist_name)
    /\ pc' = IF playlist_id' = <<>> THEN "create" ELSE "filter"
    /\ UNCHANGED <<wf, ended, arg, result, listing, content, content0, playlist_name, track_ids,
                   playlists, offset, fetches, tracks, duplicates, seen_tracks,
                   tracks_to_remove, filtered_tracks, details, k, i, batches,
                   calls, retry_count, call, faults, readFaults>>

\* create_playlist: sp.user_playlist_create; a failure is caught by main
CreatePlaylist ==
    /\ pc = "create"
    /\ \E outcome \in Outcomes(faults) :
        /\ calls' = Append(calls, WriteCall("create", Len(listing) + 1, 0, <<>>, outcome))
        /\ IF outcome = Ok
             THEN /\ listing' = Append(listing, [name |-> playlist_name,
                                                 id |-> Len(listing) + 1])
                  /\ content' = Append(content, <<>>)
                  /\ playlist_id' = <<Len(listing) + 1>>
                  /\ pc' = "filter"
                  /\ faults' = faults
             ELSE /\ UNCHANGED <<listing, content, playlist_id>>
                  /\ pc' = "error"
                  /\ faults' = faults - 1
    /\ UNCHANGED <<wf, ended, arg, result, content0, playlist_name, track_ids, playlists, offset,
                   fetches, tracks, duplicates, seen_tracks, tracks_to_remove,
                   filtered_tracks, details, k, i, batches, retry_count, call,
                   readFaults>>

\* filter_tracks: the head of its loop, entering _process_track_with_retry for the
\* next id; after the last id, main adds the kept ids if there are any
FilterNextTrack ==
    /\ pc = "filter"
    /\ IF k <= Len(track_ids)
         THEN /\ pc' = "track"
              /\ retry_count' = FreshRetryCount
              /\ call' = NewCall("track")
              /\ i' = i
         ELSE /\ pc' = IF filtered_tracks # <<>> THEN "batch" ELSE "done"
              /\ i' = 0
              /\ UNCHANGED <<retry_count, call>>
    /\ UNCHANGED <<wf, ended, arg, result, listing, content, content0, playlist_name, track_ids,
                   playlists, offset, fetches, playlist_id, tracks, duplicates, seen_tracks,
                   tracks_to_remove, filtered_tracks, details, k, batches, calls,
                   faults, readFaults>>

\* _process_track_with_retry: one turn of its loop, one sp.track call
ProcessTrackAttempt ==
    /\ pc = "track"
    /\ Retrying(retry_count)
    /\ \E outcome \in Outcomes(readFaults) :
        /\ retry_count' = CountAfter(outcome, retry_count)
        /\ call' = CallAfter(outcome, retry_count, call)
        /\ readFaults' = IF outcome = Ok THEN readFaults ELSE readFaults - 1
        /\ filtered_tracks' =
               IF outcome = Ok
                  /\ ~should_exclude_track(TrackRecord(track_ids[k]), exclude_keyword)
                 THEN Append(filtered_tracks, track_ids[k])
                 ELSE filtered_tracks
        /\ IF Leaves(outcome, retry_count)
             THEN pc' = "filter" /\ k' = k + 1 /\ ended' = Append(ended, Ending(call'))
             ELSE pc' = "track" /\ k' = k /\ ended' = ended
    /\ UNCHANGED <<wf, arg, result, listing, content, content0, playlist_name, track_ids,
                   playlists, offset, fetches, playlist_id, tracks, duplicates, seen_tracks,
                   tracks_to_remove, details, i, batches, calls, faults>>

\* add_tracks_to_playlist: the head of its loop, entering _add_batch_with_retry
\* for the next slice
AddTracksNextBatch ==
    /\ pc = "batch"
    /\ wf = "build"
    /\ IF i < Len(filtered_tracks)
         THEN /\ batches' = Append(batches, Batch(filtered_tracks, i, BATCH_SIZE))
              /\ retry_count' = 0
              /\ call' = NewCall("add")
              /\ pc' = "write"
         ELSE /\ pc' = "done"
              /\ UNCHANGED <<batches, retry_count, call>>
    /\ UNCHANGED <<wf, ended, arg, result, listing, content, content0, playlist_name, track_ids,
                   playlists, offset, fetches, playlist_id, tracks, duplicates, seen_tracks,
                   tracks_to_remove, filtered_tracks, details, k, i, calls,
                   faults, readFaults>>

\* _add_batch_with_retry: one turn of its loop, one sp.playlist_add_items call
AddBatchAttempt ==
    /\ pc = "write"
    /\ Retrying(retry_count)
    /\ LET batch == batches[Len(batches)] IN
       \E outcome \in Outcomes(faults) :
        /\ calls' = Append(calls, WriteCall("add", playlist_id[1], i, batch, outcome))
        /\ retry_count' = CountAfter(outcome, retry_count)
        /\ call' = CallAfter(outcome, retry_count, call)
        /\ faults' = IF outcome = Ok THEN faults ELSE faults - 1
        /\ content' = IF outcome = Ok
                        THEN [content EXCEPT ![playlist_id[1]] = AddItems(@, batch)]
                        ELSE content
        /\ IF Leaves(outcome, retry_count)
             THEN pc' = "batch" /\ i' = i + BATCH_SIZE
             ELSE pc' = "write" /\ i' = i
    /\ UNCHANGED <<wf, ended, arg, result, listing, content0, playlist_name, track_ids, playlists,
                   offset, fetches, playlist_id, tracks, duplicates, seen_tracks,
                   tracks_to_remove, filtered_tracks, details, k, batches,
                   readFaults>>

(***************************************************************************)
(* analyzer.py                                                             *)
(***************************************************************************)
\* get_playlist_tracks: one turn of the page loop
AnalyzerFetchTracksPage ==
    /\ pc = "tracks"
    /\ wf = "analyze"
    /\ LET response == playlist_tracks(playlist_id[1], offset) IN
        /\ fetches' = fetches + 1
        /\ IF response.items = <<>>
             THEN pc' = "done" /\ UNCHANGED <<tracks, offset>>
             ELSE /\ tracks' = tracks \o Map(ItemId, SelectSeq(response.items, HasTrack))
                  /\ offset' = offset + Len(response.items)
                  /\ pc' = IF offset' >= response.total THEN "done" ELSE "tracks"
    /\ UNCHANGED <<wf, ended, arg, result, listing, content, content0, playlist_name, track_ids,
                   playlists, playlist_id, duplicates, seen_tracks, tracks_to_remove,
                   filtered_tracks, details, k, i, batches, calls, retry_count,
                   call, faults, readFaults>>

\* get_track_details: one turn of the batch loop; a failing sp.track leaves it
GetTrackDetailsBatch ==
    /\ pc = "batch"
    /\ wf = "details"
    /\ IF i < Len(track_ids)
         THEN LET batch == Batch(track_ids, i, ANALYZER_BATCH_SIZE) IN
              /\ batches' = Append(batches, batch)
              /\ \E failed \in (IF readFaults > 0 THEN BOOLEAN ELSE {FALSE}) :
                   IF failed
                     THEN /\ pc' = "error"
                          /\ readFaults' = readFaults - 1
                          /\ UNCHANGED <<details, i>>
                     ELSE /\ details' = details \o Map(TrackRecord, batch)
                          /\ i' = i + ANALYZER_BATCH_SIZE
                          /\ pc' = "batch"
                          /\ readFaults' = readFaults
         ELSE /\ pc' = "done"
              /\ UNCHANGED <<batches, details, i, readFaults>>
    /\ UNCHANGED <<wf, ended, arg, result, listing, content, content0, playlist_name, track_ids,
                   playlists, offset, fetches, playlist_id, tracks, duplicates, seen_tracks,
                   tracks_to_remove, filtered_tracks, k, calls, retry_count, call,
                   faults>>

Next ==
    \/ FetchPlaylistsPage
    \/ ResolvePlaylist
    \/ CleanerFetchTracksPage
    \/ ScanTrack
    \/ ScanDone
    \/ CleanerRemoveBatch
    \/ RemoverFetchTracksPage
    \/ SelectTracksToRemove
    \/ RemoverRemoveBatch
    \/ FindOrCreatePlaylist
    \/ CreatePlaylist
    \/ FilterNextTrack
    \/ ProcessTrackAttempt
    \/ AddTracksNextBatch
    \/ AddBatchAttempt
    \/ AnalyzerFetchTracksPage
    \/ GetTrackDetailsBatch

Spec == Init /\ [][Next]_vars

(***************************************************************************)
(* analyzer.py: extract_playlist_id.  Text is a sequence of characters.    *)
(***************************************************************************)
\* 'spotify:playlist:'
UriPrefix ==
    <<"s", "p", "o", "t", "i", "f", "y", ":", "p", "l", "a", "y", "l",
      "i", "s", "t", ":">>

\* 'open.spotify.com'
Host ==
    <<"o", "p", "e", "n", ".", "s", "p", "o", "t", "i", "f", "y", ".",
      "c", "o", "m">>

\* 'playlist/'
PlaylistPath ==
    <<"p", "l", "a", "y", "l", "i", "s", "t", "/">>

\* Spotify IDs are 22 characters
ID_LENGTH == 22

\* url.startswith(prefix)
StartsWith(url, prefix) ==
    Len(url) >= Len(prefix) /\ SubSeq(url, 1, Len(prefix)) = prefix

\* The offsets sep occurs at in str.  No occurrence of ':', '?' or 'playlist/'
\* overlaps another one, so these are the places str.split(sep) cuts at.
Places(sep, str) ==
    {p \in 0..(Len(str) - Len(sep)) : SubSeq(str, p + 1, p + Len(sep)) = sep}

\* str.split(sep)[-1]
SplitLast(sep, str) ==
    IF Places(sep, str) = {} THEN str
    ELSE LET p == CHOOSE q \in Places(sep, str) : \A r \in Places(sep, str) : r <= q
         IN  SubSeq(str, p + Len(sep) + 1, Len(str))

\* str.split(sep)[0]
SplitFirst(sep, str) ==
    IF Places(sep, str) = {} THEN str
    ELSE LET p == CHOOSE q \in Places(sep, str) : \A r \in Places(sep, str) : q <= r
         IN  SubSeq(str, 1, p)

Whitespace == {" ", "\t", "\n"}

\* str.strip()
Strip(str) ==
    LET inked == {j \in 1..Len(str) : str[j] \notin Whitespace}
    IN  IF inked = {} THEN <<>>
        ELSE SubSeq(str, CHOOSE j \in inked : \A r \in inked : j <= r,
                         CHOOSE j \in inked : \A r \in inked : r <= j)

\* return value
Return(value) == [kind |-> "return", value |-> value]

\* raise ValueError(message)
Raise(message) == [kind |-> "raise", value |-> <<"ValueError", message>>]

extract_playlist_id(url) ==
    IF url = <<>> THEN Raise("Please provide a Spotify playlist URL")
    ELSE IF StartsWith(url, UriPrefix) THEN Return(SplitLast(<<":">>, url))
    ELSE IF Contains(Host, url)
      THEN LET id == SplitFirst(<<"?">>, SplitLast(PlaylistPath, url))
           IN  IF id = <<>>
                 THEN Raise("Invalid Spotify playlist URL format")
                 ELSE Return(id)
    ELSE IF Len(Strip(url)) = ID_LENGTH THEN Return(Strip(url))
    ELSE Raise("Invalid playlist URL format")

\* '37i9dQZF1DXcBWIGoYBM5M'
ExampleId ==
    <<"3", "7", "i", "9", "d", "Q", "Z", "F", "1", "D", "X", "c", "B",
      "W", "I", "G", "o", "Y", "B", "M", "5", "M">>

\* 'https://open.spotify.com/playlist/'
WebPrefix ==
    <<"h", "t", "t", "p", "s", ":", "/", "/", "o", "p", "e", "n", ".",
      "s", "p", "o", "t", "i", "f", "y", ".", "c", "o", "m", "/", "p",
      "l", "a", "y", "l", "i", "s", "t", "/">>

\* The arguments: what stands before the identifier, the identifier (none, 22,
\* 21 or 23 characters) and what follows it.
Prefixes ==
    {<<>>, <<" ">>, UriPrefix,
     \* 'spotify:track:'
     <<"s", "p", "o", "t", "i", "f", "y", ":", "t", "r", "a", "c", "k",
       ":">>,
     WebPrefix,
     \* 'https://open.spotify.com/track/'
     <<"h", "t", "t", "p", "s", ":", "/", "/", "o", "p", "e", "n", ".",
       "s", "p", "o", "t", "i", "f", "y", ".", "c", "o", "m", "/", "t",
       "r", "a", "c", "k", "/">>,
     \* 'https://example.com/playlist/'
     <<"h", "t", "t", "p", "s", ":", "/", "/", "e", "x", "a", "m", "p",
       "l", "e", ".", "c", "o", "m", "/", "p", "l", "a", "y", "l", "i",
       "s", "t", "/">>}

Bodies ==
    {<<>>, ExampleId, SubSeq(ExampleId, 1, ID_LENGTH - 1), ExampleId \o <<"x">>}

Suffixes ==
    {<<>>, <<" ">>, <<"/">>, <<":", "b">>, <<"?", "s", "i", "=", "x">>}

ExtractArgs ==
    {pre \o body \o suf : pre \in Prefixes, body \in Bodies, suf \in Suffixes}

(***************************************************************************)
(* The functions called on their own: should_exclude_track (spotify.py)    *)
(* and extract_playlist_id (analyzer.py), each applied once to an argument *)
(* chosen at the start.                                                    *)
(***************************************************************************)
\* The characters of the keywords and of the texts of the records.
Letters == {"l", "L", "o"}

Keywords == SeqsUpTo(Letters, MaxKw)

Texts == SeqsUpTo(Letters, MaxText)

\* A text no keyword made of Letters occurs in, in either case.
Neutral == <<"H", "i", "t", "s">>

\* The records: one of name, album name, label and artists is varied, the label
\* may be absent, the artist list may be empty.
Record(name, album, artists) ==
    [id |-> 1, name |-> name, album |-> album, artists |-> artists]

ExcludeTracks ==
    {Record(t, [name |-> Neutral, label |-> Neutral], <<[name |-> Neutral]>>) :
        t \in Texts}
    \cup {Record(Neutral, [name |-> t, label |-> Neutral], <<[name |-> Neutral]>>) :
        t \in Texts}
    \cup {Record(Neutral, [name |-> t], <<[name |-> Neutral]>>) : t \in Texts}
    \cup {Record(Neutral, [name |-> Neutral, label |-> t], <<[name |-> Neutral]>>) :
        t \in Texts}
    \cup {Record(Neutral, [name |-> Neutral], as) :
        as \in SeqsUpTo({[name |-> t] : t \in Texts}, MaxArtists)}

ExcludeArgs == [track : ExcludeTracks, keyword : Keywords]

\* The variables of the workflows, which no function called on its own touches.
Idle ==
    /\ listing = <<>>
    /\ content = <<>>
    /\ content0 = <<>>
    /\ playlist_name = "mix"
    /\ track_ids = <<>>
    /\ playlists = <<>>
    /\ offset = 0
    /\ fetches = 0
    /\ playlist_id = <<>>
    /\ tracks = <<>>
    /\ duplicates = <<>>
    /\ seen_tracks = {}
    /\ tracks_to_remove = <<>>
    /\ filtered_tracks = <<>>
    /\ details = <<>>
    /\ k = 1
    /\ i = 0
    /\ batches = <<>>
    /\ calls = <<>>
    /\ retry_count = 0
    /\ call = [op |-> "none", attempts |-> 0, limited |-> 0, waits |-> <<>>,
               failure |-> "none", result |-> "none"]
    /\ faults = 0
    /\ readFaults = 0
    /\ ended = <<>>

InitPure ==
    /\ Idle
    /\ pc = "call"
    /\ result = NoResult
    /\ \/ wf = "exclude" /\ arg \in ExcludeArgs
       \/ wf = "extract" /\ arg \in ExtractArgs

\* manager.should_exclude_track(track, keyword)
ApplyShouldExclude ==
    /\ wf = "exclude"
    /\ pc = "call"
    /\ result' = Return(should_exclude_track(arg.track, arg.keyword))
    /\ pc' = "done"
    /\ UNCHANGED <<wf, arg, ended, listing, content, content0, playlist_name,
                   track_ids, playlists, offset, fetches, playlist_id, tracks,
                   duplicates, seen_tracks, tracks_to_remove, filtered_tracks,
                   details, k, i, batches, calls, retry_count, call, faults,
                   readFaults>>

\* extract_playlist_id(playlist_url)
ApplyExtractPlaylistId ==
    /\ wf = "extract"
    /\ pc = "call"
    /\ result' = extract_playlist_id(arg)
    /\ pc' = "done"
    /\ UNCHANGED <<wf, arg, ended, listing, content, content0, playlist_name,
                   track_ids, playlists, offset, fetches, playlist_id, tracks,
                   duplicates, seen_tracks, tracks_to_remove, filtered_tracks,
                   details, k, i, batches, calls, retry_count, call, faults,
                   readFaults>>

NextPure ==
    \/ ApplyShouldExclude
    \/ ApplyExtractPlaylistId

SpecPure == InitPure /\ [][NextPure]_vars

(***************************************************************************)
(* Vocabulary of the properties.                                           *)
(***************************************************************************)
\* The ids of the items of a playlist that have a track, in order.
TrackIdsOf(items) == Map(ItemId, SelectSeq(items, HasTrack))

Occurrences(items, id) ==
    Cardinality({j \in 1..Len(items) : HasTrack(items[j]) /\ ItemId(items[j]) = id})

\* The sequence a batch loop of the running workflow cuts into batches.
Work ==
    CASE wf = "clean" -> duplicates
      [] wf = "remove" -> Map(LAMBDA t : t.uri, tracks_to_remove)
      [] wf = "build" -> filtered_tracks
      [] wf = "details" -> track_ids
      [] OTHER -> <<>>

BatchSizeOf(w) == IF w = "details" THEN ANALYZER_BATCH_SIZE ELSE BATCH_SIZE

Ended == pc \in {"done", "error", "notfound"}

IsPrefix(p, seq) == Len(p) <= Len(seq) /\ p = SubSeq(seq, 1, Len(p))

\* The batch writes (not the creation of a playlist) the remote refused.
RefusedWrites(statuses) ==
    {n \in 1..Len(calls) : /\ calls[n].op \in {"remove", "add"}
                           /\ calls[n].outcome.kind # "ok"
                           /\ calls[n].outcome.http_status \in statuses}

(***************************************************************************)
(* C1: after remove_duplicate_tracks has completed (every remote remove    *)
(* call having succeeded), every track id that was in the playlist before  *)
(* the run is in the playlist exactly once.                                *)
(***************************************************************************)
C1_KeepsFirstOccurrence ==
    (wf = "clean" /\ pc = "done") =>
        \A id \in Range(TrackIdsOf(content0[playlist_id[1]])) :
            Occurrences(content[playlist_id[1]], id) = 1

(***************************************************************************)
(* C2: a retry-wrapper call whose operation fails only with 429, k times:  *)
(* it ends in Success only for k < max_retries, after exactly k sleeps and *)
(* k + 1 invocations; a call that ends in GivenUp without a failure of     *)
(* another kind has made exactly max_retries invocations, all answered 429.*)
(***************************************************************************)
C2_RetryBound ==
    /\ call.result = "Success" =>
        /\ call.limited < max_retries
        /\ Len(call.waits) = call.limited
        /\ call.attempts = call.limited + 1
    /\ (call.result = "GivenUp" /\ call.failure = "none") =>
        /\ call.limited = max_retries
        /\ call.attempts = max_retries
    /\ (call.result = "Attempting" /\ call.failure = "none") =>
        /\ call.limited < max_retries
        /\ call.attempts = call.limited

C2_SucceedsOnLastAttempt ==
    /\ call.result = "Success"
    /\ call.limited = max_retries - 1
    /\ call.attempts = max_retries

(***************************************************************************)
(* C3: the invocation that fails with anything but a 429 ends the call in  *)
(* GivenUp at once, with no sleep, however many 429 retries came before;   *)
(* a call in Success or GivenUp never changes again (the wrapper's next    *)
(* call starts from a fresh record).                                       *)
(***************************************************************************)
C3_OtherFailureGivesUp ==
    [][ /\ (call.failure = "none" /\ call'.failure # "none") =>
            /\ call'.result = "GivenUp"
            /\ call'.attempts = call.attempts + 1
            /\ call'.waits = call.waits
            /\ pc' \notin {"track", "write"}
        /\ call.result \in {"Success", "GivenUp"} =>
            \/ call' = call
            \/ call' = NewCall("track") /\ retry_count' = 0
            \/ call' = NewCall("add") /\ retry_count' = 0 ]_vars

C3_GivenUpAfterRetries ==
    /\ call.failure = "status"
    /\ call.limited = max_retries - 1
    /\ call.result = "GivenUp"

(***************************************************************************)
(* C4: in Deduplicate, Remove-by-id and Filter-and-build, a batch write    *)
(* refused with something else than a 429 does not abort the workflow, and *)
(* every later batch is still attempted.                                   *)
(***************************************************************************)
C4_FailedBatchIsSkipped ==
    (wf \in {"clean", "remove", "build"} /\ RefusedWrites({0, 500}) # {}) =>
        /\ pc # "error"
        /\ pc = "done" => Concat(batches) = Work

(***************************************************************************)
(* C5: in Deduplicate and Remove-by-id, a batch removal refused with a 429 *)
(* is tried again, until it is accepted or has been tried max_retries      *)
(* times.                                                                  *)
(***************************************************************************)
C5_RemovalRetriedOn429 ==
    (wf \in {"clean", "remove"} /\ Ended) =>
        \A n \in RefusedWrites({429}) :
            \/ n < Len(calls) /\ calls[n + 1].at = calls[n].at
            \/ Cardinality({m \in 1..Len(calls) : calls[m].at = calls[n].at})
                   = max_retries

(***************************************************************************)
(* C6 as stated: a paginator returns every element of the remote           *)
(* collection, in the remote's order, with at most ceil(T / pageSize) page *)
(* fetches for a collection of T elements.                                 *)
(***************************************************************************)
Ceil(a, b) == (a + b - 1) \div b

Max(a, b) == IF a > b THEN a ELSE b

\* The playlist paginator has returned (the listing is as it found it).
PlaylistsFetched == pc = "resolve"

\* The track paginator of the running workflow has returned.
TracksFetched ==
    \/ wf = "clean" /\ pc \in {"scan", "batch", "done", "error"}
    \/ wf = "remove" /\ pc \in {"select", "batch", "done"}
    \/ wf = "analyze" /\ pc = "done"

\* What the track paginator of workflow w returns for the items it keeps.
Fetched(w, items) ==
    IF w = "clean"
      THEN Map(LAMBDA it : [id |-> ItemId(it), uri |-> ItemUri(it)], items)
      ELSE Map(ItemId, items)

C6_FetchesWithinCeiling ==
    /\ PlaylistsFetched =>
        /\ playlists = listing
        /\ fetches <= Ceil(Len(listing), PLAYLIST_PAGE)
    /\ TracksFetched =>
        /\ Len(tracks) = Len(content0[playlist_id[1]])
        /\ tracks = Fetched(wf, SelectSeq(content0[playlist_id[1]], HasTrack))
        /\ fetches <= Ceil(Len(content0[playlist_id[1]]), TRACK_PAGE)

(***************************************************************************)
(* C6, amended: a paginator returns, in the remote's order, every element  *)
(* of the remote collection that it keeps (every playlist; every playlist  *)
(* item that has a track).  For a collection of T elements the paginators  *)
(* that stop on a short page (clean.py, remove.py, the playlist listing)   *)
(* fetch floor(T / pageSize) + 1 pages, and analyzer.py's, which stops on  *)
(* the reported total, fetches max(1, ceil(T / pageSize)) pages.           *)
(***************************************************************************)
C6_Paginator ==
    /\ PlaylistsFetched =>
        /\ playlists = listing
        /\ fetches = (Len(listing) \div PLAYLIST_PAGE) + 1
    /\ TracksFetched =>
        LET remote == content0[playlist_id[1]] IN
        /\ tracks = Fetched(wf, SelectSeq(remote, HasTrack))
        /\ fetches = IF wf = "analyze"
                       THEN Max(1, Ceil(Len(remote), TRACK_PAGE))
                       ELSE (Len(remote) \div TRACK_PAGE) + 1

C6_FullLastPage ==
    /\ wf = "clean"
    /\ pc = "scan"
    /\ Len(content0[playlist_id[1]]) = 2 * TRACK_PAGE
    /\ Len(tracks) = 2 * TRACK_PAGE
    /\ fetches = 3

(***************************************************************************)
(* C7: remove.py sends to the remote remove call exactly the uris of the   *)
(* requested ids that are in the playlist, in the order of the request;    *)
(* a requested id that is not in the playlist is never sent and ends       *)
(* nothing in an error; when no requested id is in the playlist no remove  *)
(* call is made and the playlist is as it was.                             *)
(***************************************************************************)
\* The uris the remote remove call has been handed, in order.
SentUris == Concat([n \in 1..Len(calls) |-> calls[n].items])

RequestedAndPresent ==
    LET present == Range(TrackIdsOf(content0[playlist_id[1]])) IN
    Map(Uri, SelectSeq(track_ids, LAMBDA q : q \in present))

C7_RemovesRequestedPresent ==
    wf = "remove" =>
        /\ pc # "error"
        /\ pc = "batch" => IsPrefix(SentUris, RequestedAndPresent)
        /\ pc = "done" =>
            /\ SentUris = RequestedAndPresent
            /\ RequestedAndPresent = <<>> => calls = <<>> /\ content = content0

C7_AbsentIdIgnored ==
    /\ wf = "remove"
    /\ pc = "done"
    /\ calls # <<>>
    /\ \E q \in Range(track_ids) : Uri(q) \notin Range(SentUris)

(***************************************************************************)
(* C8: the removal list of clean.py holds, in playlist order, the uri of   *)
(* every occurrence of an id after its first: its length is the number of  *)
(* tracks minus the number of distinct ids, a first occurrence contributes *)
(* nothing, and with an empty list no remote remove call is made.          *)
(***************************************************************************)
C8_RemovalList ==
    (wf = "clean" /\ pc \in {"batch", "done", "error"}) =>
        LET ts == SelectSeq(content0[playlist_id[1]], HasTrack)
            repeats == {j \in 1..Len(ts) :
                           \E m \in 1..(j - 1) : ItemId(ts[m]) = ItemId(ts[j])}
            rank(j) == Cardinality({m \in repeats : m <= j})
        IN  /\ Len(duplicates) = Len(ts) - Cardinality(Range(TrackIdsOf(ts)))
            /\ Len(duplicates) = Cardinality(repeats)
            /\ \A j \in repeats : duplicates[rank(j)] = ItemUri(ts[j])
            /\ duplicates = <<>> => calls = <<>> /\ pc = "done"

C8_ExampleRemovalList ==
    /\ wf = "clean"
    /\ pc = "batch"
    /\ TrackIdsOf(content0[playlist_id[1]]) = <<1, 2, 1, 3, 2>>
    /\ duplicates = <<Uri(1), Uri(2)>>

(***************************************************************************)
(* C9: the batches a batch loop takes are non-empty, of at most the batch  *)
(* size, contiguous and in order: together they are a prefix of the input  *)
(* whose every batch but the last is full, and the whole input once the    *)
(* loop has ended; an empty input gives no batch.                          *)
(***************************************************************************)
C9_Batcher ==
    wf \in {"clean", "remove", "build", "details"} =>
        /\ \A n \in 1..Len(batches) :
            /\ batches[n] # <<>>
            /\ Len(batches[n]) <= BatchSizeOf(wf)
            /\ n < Len(batches) => Len(batches[n]) = BatchSizeOf(wf)
        /\ batches # <<>> => IsPrefix(Concat(batches), Work)
        /\ pc = "done" => Concat(batches) = Work
        /\ (Ended /\ Work = <<>>) => batches = <<>>

C9_ShortLastBatch ==
    /\ wf = "build"
    /\ pc = "done"
    /\ Len(batches) = 3
    /\ Len(batches[3]) = 1

(***************************************************************************)
(* C10: in clean.py and remove.py, when no playlist of the user has the    *)
(* configured name the run ends with no playlist resolved, no remote       *)
(* write and every remote playlist as it was; a resolved playlist is the   *)
(* first one of that name in listing order.                                *)
(***************************************************************************)
NoneNamed == \A j \in 1..Len(listing) : listing[j].name # playlist_name

C10_Resolution ==
    wf \in {"clean", "remove"} =>
        /\ NoneNamed =>
            /\ pc \in {"list", "resolve", "notfound"}
            /\ playlist_id = <<>>
            /\ calls = <<>>
            /\ content = content0
        /\ pc = "notfound" => NoneNamed
        /\ playlist_id # <<>> =>
            \E j \in 1..Len(listing) :
                /\ listing[j].name = playlist_name
                /\ listing[j].id = playlist_id[1]
                /\ \A m \in 1..(j - 1) : listing[m].name # playlist_name

C10_NotFound ==
    /\ wf \in {"clean", "remove"}
    /\ pc = "notfound"
    /\ listing # <<>>

(***************************************************************************)
(* C11: should_exclude_track(track, keyword) is true exactly when the      *)
(* keyword occurs, compared without regard to case, in the track name, the *)
(* album name, the joined artist names or the record label (an absent      *)
(* label counting as empty).                                               *)
(***************************************************************************)
\* The fields the comparison ranges over.
FieldsOf(track) ==
    {track.name, track.album.name,
     Join(Map(LAMBDA a : a.name, track.artists)),
     IF "label" \in DOMAIN track.album THEN track.album.label ELSE <<>>}

MatchesIgnoringCase(track, keyword) ==
    \E field \in FieldsOf(track) : Contains(LowerStr(keyword), LowerStr(field))

C11_CaseInsensitiveMatch ==
    (wf = "exclude" /\ pc = "done")
        => result = Return(MatchesIgnoringCase(arg.track, arg.keyword))

\* The two agree on every keyword that has no upper-case letter.
C11_LowerCaseKeyword ==
    (wf = "exclude" /\ pc = "done" /\ arg.keyword = LowerStr(arg.keyword))
        => result = Return(MatchesIgnoringCase(arg.track, arg.keyword))

(***************************************************************************)
(* C12: extract_playlist_id returns the identifier of a web link, of a     *)
(* URI or of a bare 22-character identifier and rejects every other input; *)
(* it never returns an empty identifier.                                   *)
(***************************************************************************)
C12_NeverReturnsEmptyId ==
    (wf = "extract" /\ pc = "done" /\ result.kind = "return")
        => result.value # <<>>

\* What is returned for an argument without a playlist link, a playlist URI or
\* a 22-character text in it is not that argument itself.
C12_RejectsOtherInput ==
    (wf = "extract" /\ pc = "done" /\ result.kind = "return")
        => \/ Contains(PlaylistPath, arg)
           \/ StartsWith(arg, UriPrefix)
           \/ Len(Strip(arg)) = ID_LENGTH

\* The examples of the three forms, and the 21-character text.
C12_Examples ==
    (wf = "extract" /\ pc = "done")
        => /\ arg \in {WebPrefix \o ExampleId \o <<"?", "s", "i", "=", "x">>,
                       WebPrefix \o ExampleId,
                       UriPrefix \o ExampleId,
                       ExampleId} => result = Return(ExampleId)
           /\ arg = SubSeq(ExampleId, 1, ID_LENGTH - 1) => result.kind = "raise"

(***************************************************************************)
(* C13: filter_tracks returns the ids, in the order of its input, whose    *)
(* detail fetch ended in Success and whose record does not match the       *)
(* keyword; an id whose fetch was given up is dropped, the ids after it    *)
(* are still processed, and every call of the retry wrapper starts with a  *)
(* fresh count.                                                            *)
(***************************************************************************)
\* The ids of the runs whose record matches the keyword of main.
MatchingIds ==
    {id \in UNION {Range(s.ids) : s \in Scenarios} :
        MatchesIgnoringCase(TrackRecord(id), exclude_keyword)}

\* The j-th id has been fetched with success and its record does not match.
Kept(j) == ended[j].result = "Success" /\ track_ids[j] \notin MatchingIds

\* filter_tracks has returned to main.
Filtered == wf = "build" /\ pc \in {"batch", "write", "done"}

C13_FilterTracks ==
    wf = "build" =>
        /\ Len(ended) <= Len(track_ids)
        /\ \A j \in 1..Len(ended) : ended[j].result \in {"Success", "GivenUp"}
        /\ filtered_tracks =
               Map(LAMBDA j : track_ids[j], SelectSeq(Iota(Len(ended)), Kept))
        /\ Filtered => Len(ended) = Len(track_ids)
        /\ pc = "track" => /\ retry_count = call.limited
                           /\ call.attempts = call.limited
                           /\ k = Len(ended) + 1

\* The first id was given up after max_retries rate-limit answers, the second
\* one was fetched and kept, and the list was returned.
C13_KeptAfterExhaustion ==
    /\ Filtered
    /\ Len(ended) = 2
    /\ ended[1] = [result |-> "GivenUp", exhausted |-> TRUE]
    /\ ended[2] = [result |-> "Success", exhausted |-> FALSE]
    /\ filtered_tracks = <<track_ids[2]>>

====
